---------------------------- MODULE Spec2Model ----------------------------
(***************************************************************************)
(* DeepClustering (nussl/separation/deep_clustering.py): the mask          *)
(* derivation pipeline run() = _compute_spectrograms, deep_clustering,     *)
(* _extract_masks per channel, collation and mask-object assembly.         *)
(*                                                                         *)
(* Arrays are flat row-major sequences with a shape, as numpy stores them. *)
(* Real numbers are exact: a value is a quotient n/d of two polynomials in *)
(* the symbol eps = 1e-7 (the constant added to every denominator in the   *)
(* source) with integer coefficients.  Every coefficient formed here is    *)
(* far below 1/eps, so the sign of a polynomial at eps = 1e-7 is the sign  *)
(* of its lowest-order non-zero coefficient, and comparisons are exact.    *)
(* 0/0 is numpy's nan.                                                     *)
(***************************************************************************)
EXTENDS Integers, Sequences, FiniteSets, TLC

VARIABLES
    mask_type,          \* self.mask_type
    num_sources,        \* self.num_sources
    audio_signal,       \* self.audio_signal: shape, |stft| it yields, stft_data
    stft,               \* self.stft: None or its shape
    mel_spectrogram,    \* self.mel_spectrogram: None or its shape
    silence_mask,       \* self.silence_mask: None or boolean array
    embeddings,         \* self.embeddings: None or one row per flat element
    assignments,        \* self.assignments: None (unset) or label array
    centroids,          \* self.centroids: None (unset) or one centre per source
    masks,              \* self.masks: the list of mask objects, empty before the first run()
    stage,              \* position of run()
    chan,               \* loop variable i of run()'s extraction loop
    uncollated_masks,   \* local of run()
    raised,             \* the exception that ended the last run(), or "none"
    trace,              \* stages the current run() has passed through
    runs,               \* number of run() invocations so far
    embedder_calls,     \* number of self.model(...) invocations so far
    last_call           \* outcome of the last direct call of a mask method

vars == <<mask_type, num_sources, audio_signal, stft, mel_spectrogram,
          silence_mask, embeddings, assignments, centroids, masks, stage,
          chan, uncollated_masks, raised, trace, runs, embedder_calls,
          last_call>>

---------------------------------------------------------------------------
(* Bounds of the model *)

MaxChannels == 2
MaxFrames == 2
MaxRuns == 2

(* Configuration of the separator *)

NumMels == 2
NumFreq == 4
MaxDistance == 1
CutoffDb == -40

BINARY_MASK == "binary"
SOFT_MASK == "soft"

---------------------------------------------------------------------------
(* Polynomials in eps: sequences of integer coefficients, lowest first *)

Max2(a, b) == IF a >= b THEN a ELSE b

Abs(a) == IF a < 0 THEN -a ELSE a

PCoef(p, k) == IF k <= Len(p) THEN p[k] ELSE 0

PTrim(p) ==
    LET nz == {k \in 1..Len(p) : p[k] # 0}
        top == IF nz = {} THEN 1 ELSE CHOOSE k \in nz : \A j \in nz : j <= k
    IN  SubSeq(p, 1, top)

PAdd(p, q) == PTrim([k \in 1..Max2(Len(p), Len(q)) |-> PCoef(p, k) + PCoef(q, k)])

PScale(c, p) == PTrim([k \in 1..Len(p) |-> c * p[k]])

PSub(p, q) == PAdd(p, PScale(-1, q))

RECURSIVE ConvAt(_, _, _, _)
ConvAt(p, q, k, i) ==
    IF i > Len(p) THEN 0
    ELSE (IF k + 1 - i >= 1 /\ k + 1 - i <= Len(q) THEN p[i] * q[k + 1 - i] ELSE 0)
         + ConvAt(p, q, k, i + 1)

PMul(p, q) == PTrim([k \in 1..(Len(p) + Len(q) - 1) |-> ConvAt(p, q, k, 1)])

\* sign of p at eps = 1e-7: the lowest-order non-zero coefficient decides
PSign(p) ==
    LET nz == {k \in 1..Len(p) : p[k] # 0}
    IN  IF nz = {} THEN 0
        ELSE LET lo == CHOOSE k \in nz : \A j \in nz : k <= j
             IN  IF p[lo] > 0 THEN 1 ELSE -1

(* Reals: n/d with d > 0; d = 0 and n = 0 is nan *)

RInt(k) == [n |-> <<k>>, d |-> <<1>>]

REps == [n |-> <<0, 1>>, d |-> <<1>>]

RNaN == [n |-> <<0>>, d |-> <<0>>]

IsNaN(x) == PSign(x.d) = 0

RAdd(x, y) ==
    IF IsNaN(x) \/ IsNaN(y) THEN RNaN
    ELSE IF x.d = y.d THEN [n |-> PAdd(x.n, y.n), d |-> x.d]
    ELSE [n |-> PAdd(PMul(x.n, y.d), PMul(y.n, x.d)), d |-> PMul(x.d, y.d)]

RNeg(x) == [n |-> PScale(-1, x.n), d |-> x.d]

RSub(x, y) == RAdd(x, RNeg(y))

RScale(c, x) == [n |-> PScale(c, x.n), d |-> x.d]

RMul(x, y) ==
    IF IsNaN(x) \/ IsNaN(y) THEN RNaN
    ELSE [n |-> PMul(x.n, y.n), d |-> PMul(x.d, y.d)]

\* x / y for y >= 0; 0/0 is nan (numpy warns and continues)
RDiv(x, y) ==
    IF IsNaN(x) \/ IsNaN(y) THEN RNaN
    ELSE IF PSign(y.n) = 0 THEN RNaN
    ELSE IF x.d = y.d THEN [n |-> x.n, d |-> y.n]
    ELSE [n |-> PMul(x.n, y.d), d |-> PMul(x.d, y.n)]

\* -1, 0, 1 as x < y, x = y, x > y
RCmp(x, y) == PSign(PSub(PMul(x.n, y.d), PMul(y.n, x.d)))

RAbs(x) == IF PSign(x.n) < 0 THEN RNeg(x) ELSE x

RCube(x) == RMul(x, RMul(x, x))

Range(s) == {s[k] : k \in 1..Len(s)}

\* np.min / np.max of a flat array (nan-free)
RMin(s) == CHOOSE x \in Range(s) : \A y \in Range(s) : RCmp(x, y) <= 0

RMax(s) == CHOOSE x \in Range(s) : \A y \in Range(s) : RCmp(x, y) >= 0

\* np.round: to the nearest integer, halves to the even one
RoundSpan == -4..4

RFloor(x) == CHOOSE q \in RoundSpan :
                 /\ RCmp(RInt(q), x) <= 0
                 /\ RCmp(x, RInt(q + 1)) < 0

\* np.round left out
NoRound(x) == x

NpRound(x) ==
    IF IsNaN(x) THEN RNaN
    ELSE LET q == RFloor(x)
             twice == RCmp(RScale(2, RSub(x, RInt(q))), RInt(1))
         IN  IF twice < 0 THEN RInt(q)
             ELSE IF twice > 0 THEN RInt(q + 1)
             ELSE IF q % 2 = 0 THEN RInt(q) ELSE RInt(q + 1)

---------------------------------------------------------------------------
(* Filter banks, fixed at construction *)

\* librosa.filters.mel(...).T, NumFreq x NumMels, in halves: the bins at 0 Hz
\* and at the Nyquist frequency carry no weight in any mel band
MelDen == 2

MelFilterBank == << <<0, 0>>, <<2, 2>>, <<0, 1>>, <<0, 0>> >>

\* np.linalg.pinv of it, NumMels x NumFreq
InverseMelFilterBank == << <<0, 1, -2, 0>>, <<0, 0, 2, 0>> >>


\* Python's None (or an attribute not yet set), by the kind of value it stands for
None == <<>>

NoArray == [shape |-> <<>>, data |-> <<>>]

NoData == "None"

---------------------------------------------------------------------------
(* Array helpers: shapes are tuples, data is flat and row-major *)

Size(shape) == IF Len(shape) = 2 THEN shape[1] * shape[2]
               ELSE shape[1] * shape[2] * shape[3]

\* a[i, j, k] of a 3-D array, indices from 0
At3(a, i, j, k) == a.data[(i * a.shape[2] + j) * a.shape[3] + k + 1]

\* a[i, j] of a 2-D array, indices from 0
At2(a, i, j) == a.data[i * a.shape[2] + j + 1]

RECURSIVE Pow10(_)
Pow10(k) == IF k = 0 THEN 1 ELSE 10 * Pow10(k - 1)

---------------------------------------------------------------------------
(* _compute_spectrograms *)

\* np.dot(magnitude[:, :, ch].T, mel_filter_bank)[t, m], in units of 1/MelDen
MelPower(sig, ch, t, m) ==
    LET mag(f) == sig.magnitude[(f * sig.num_frames + t) * sig.num_channels + ch + 1]
        RECURSIVE Dot(_)
        Dot(f) == IF f = NumFreq THEN 0
                  ELSE mag(f) * MelFilterBank[f + 1][m + 1] + Dot(f + 1)
    IN  Dot(0)

\* 10 * log10(p^2 + 1e-7) > cutoff, i.e. p^2 + eps - 10^(cutoff/10) > 0,
\* with p = power / MelDen, multiplied out by MelDen^2 * 10^(-cutoff/10)
AboveCutoff(power) ==
    LET inv == Pow10((0 - CutoffDb) \div 10)
    IN  PSign(<<power * power * inv - MelDen * MelDen, MelDen * MelDen * inv>>) > 0

MelShape(sig) == <<sig.num_channels, sig.num_frames, NumMels>>

SilenceMaskOf(sig) ==
    LET shape == MelShape(sig)
    IN  [shape |-> shape,
         data |-> [r \in 1..Size(shape) |->
                     LET ch == (r - 1) \div (shape[2] * shape[3])
                         t == ((r - 1) \div shape[3]) % shape[2]
                         m == (r - 1) % shape[3]
                     IN  AboveCutoff(MelPower(sig, ch, t, m))]]

---------------------------------------------------------------------------
(* deep_clustering *)

\* np.sqrt(np.sum((e - c)**2, axis=-1)) for embedding_size = 1
Distance(e, c) == Abs(e - c)

\* KMeans.labels_ + 1: the nearest centre, the first one on a tie
Label(e, centres) ==
    CHOOSE k \in 1..Len(centres) :
        \A j \in 1..Len(centres) :
            \/ Distance(e, centres[k]) < Distance(e, centres[j])
            \/ Distance(e, centres[k]) = Distance(e, centres[j]) /\ k <= j

Labels(emb, centres) == [r \in 1..Len(emb) |-> Label(emb[r], centres)]

---------------------------------------------------------------------------
(* _extract_masks *)

\* the value of a one-element set: The({F(x) : x \in {e}}) is F(e) with e
\* evaluated once
The(S) == CHOOSE x \in S : TRUE

\* (silence_mask[ch] * assignments[ch]) == cluster_index, a T x NumMels array
BinaryMelMask(ch, cluster_index) ==
    LET shape == <<mel_spectrogram[2], mel_spectrogram[3]>>
    IN  [shape |-> shape,
         data |-> [r \in 1..Size(shape) |->
                     LET t == (r - 1) \div shape[2]
                         m == (r - 1) % shape[2]
                         product == IF At3(silence_mask, ch, t, m)
                                    THEN At3(assignments, ch, t, m) ELSE 0
                     IN  IF product = cluster_index THEN RInt(1) ELSE RInt(0)]]

\* distances += distances.min()
AddMin(dist) ==
    The({[r \in 1..Len(dist) |-> RAdd(dist[r], lo)] : lo \in {RMin(dist)}})

\* distances /= (distances.max() + 1e-7)
DivideByMaxEps(values) ==
    The({[r \in 1..Len(values) |-> RDiv(values[r], scale)] :
            scale \in {RAdd(RMax(values), REps)}})

\* distances[distances > max_distance] = 1, then 1 - distances
ClipAndInvert(values) ==
    [r \in 1..Len(values) |->
        RSub(RInt(1), IF RCmp(values[r], RInt(MaxDistance)) > 0
                      THEN RInt(1) ELSE values[r])]

\* lines 187-191, for every row of the embedding matrix
Affinities(cluster_index) ==
    The({ClipAndInvert(scaled) :
            scaled \in {DivideByMaxEps(shifted) :
               shifted \in {AddMin(dist) :
                  dist \in {[r \in 1..Len(embeddings) |->
                               RInt(Distance(embeddings[r], centroids[cluster_index]))]}}}})

\* silence_mask[ch] * distances[ch], a T x NumMels array
SoftMelMask(ch, cluster_index) ==
    LET shape == <<mel_spectrogram[2], mel_spectrogram[3]>>
    IN  The({[shape |-> shape,
              data |-> [r \in 1..Size(shape) |->
                          LET t == (r - 1) \div shape[2]
                              m == (r - 1) % shape[2]
                          IN  IF At3(silence_mask, ch, t, m)
                              THEN At3(aff, ch, t, m)
                              ELSE RScale(0, At3(aff, ch, t, m))]] :
               aff \in {[shape |-> mel_spectrogram,
                         data |-> Affinities(cluster_index)]}})

\* the mel-domain mask of one cluster index on one channel
MelMask(ch, cluster_index) ==
    IF mask_type = BINARY_MASK THEN BinaryMelMask(ch, cluster_index)
    ELSE SoftMelMask(ch, cluster_index)

\* np.dot(mask, inverse_mel_filter_bank).T, a NumFreq x T array
Project(mel) ==
    LET shape == <<NumFreq, mel.shape[1]>>
        RECURSIVE Dot(_, _, _)
        Dot(t, f, m) ==
            LET term == RScale(InverseMelFilterBank[m + 1][f + 1], At2(mel, t, m))
            IN  IF m + 1 = NumMels THEN term ELSE RAdd(term, Dot(t, f, m + 1))
    IN  [shape |-> shape,
         data |-> [r \in 1..Size(shape) |->
                     Dot((r - 1) % shape[2], (r - 1) \div shape[2], 0)]]

\* mask += mask.min(), the absolute value left out
ShiftByMin(mask) ==
    The({[mask EXCEPT !.data = [r \in 1..Len(mask.data) |-> RAdd(mask.data[r], lo)]] :
            lo \in {RMin(mask.data)}})

\* mask += np.abs(mask.min())
ShiftByAbsMin(mask) ==
    The({[mask EXCEPT !.data = [r \in 1..Len(mask.data) |-> RAdd(mask.data[r], lo)]] :
            lo \in {RAbs(RMin(mask.data))}})

\* mask /= (np.max(mask) + 1e-7)
DivideByMax(mask) == [mask EXCEPT !.data = DivideByMaxEps(mask.data)]

\* lines 193-195 of _extract_masks, lines 221-223 of generate_mask
Normalize(mel) ==
    The({DivideByMax(shifted) :
            shifted \in {ShiftByAbsMin(mask) : mask \in {Project(mel)}}})

\* x**3 / (x**3 + y**3), the common factor of the two denominators cancelled;
\* nan when both are 0
PowerShare(x, y) ==
    The({IF IsNaN(RAdd(cx, cy)) \/ PSign(RAdd(cx, cy).n) = 0 THEN RNaN
         ELSE [n |-> PMul(cx.n, cy.d),
               d |-> PAdd(PMul(cx.n, cy.d), PMul(cy.n, cx.d))] :
            cx \in {RCube(x)}, cy \in {RCube(y)}})

\* lines 199-204: stack on a last axis, reshape(-1, 2), cube, divide each pair
\* by its sum, reshape back and unstack
Sharpen(channel_mask_list) ==
    LET count == Len(channel_mask_list)
        shape == channel_mask_list[1].shape
        total == Size(shape) * count
        partner(r) == IF r % 2 = 1 THEN r + 1 ELSE r - 1
    IN  The({[i \in 1..num_sources |->
                [shape |-> shape,
                 data |-> [r \in 1..Size(shape) |-> data[(r - 1) * count + i]]]] :
            data \in {[r \in 1..total |-> PowerShare(stacked[r], stacked[partner(r)])] :
               stacked \in {[r \in 1..total |->
                  channel_mask_list[((r - 1) % count) + 1].data[((r - 1) \div count) + 1]]}}})

\* the exception _extract_masks(ch) raises in the current state, or "none"
ExtractMasksError(ch) ==
    IF audio_signal.stft_data = NoData THEN "ValueError: no signal_stft data"
    ELSE IF mask_type = BINARY_MASK THEN
        (IF silence_mask = NoArray THEN "TypeError"
         ELSE IF assignments = NoArray THEN "AttributeError"
         ELSE IF ch >= silence_mask.shape[1] THEN "IndexError"
         ELSE "none")
    ELSE IF mask_type = SOFT_MASK THEN
        (IF centroids = None THEN "AttributeError"
         ELSE IF embeddings = None THEN "TypeError"
         ELSE IF Len(embeddings) # Size(mel_spectrogram) THEN "ValueError: reshape"
         ELSE IF ch >= silence_mask.shape[1] THEN "IndexError"
         ELSE IF (NumFreq * mel_spectrogram[2] * num_sources) % 2 = 1
              THEN "ValueError: reshape"
         ELSE "none")
    ELSE "UnboundLocalError"

\* the list _extract_masks(ch) returns when it raises nothing
ExtractMasksValue(ch) ==
    The({IF mask_type = SOFT_MASK THEN Sharpen(channel_mask_list)
         ELSE channel_mask_list :
            channel_mask_list \in
                {[i \in 1..num_sources |-> Normalize(MelMask(ch, i))]}})

extract_masks(ch) ==
    The({[raised |-> error,
          value |-> IF error = "none" THEN ExtractMasksValue(ch) ELSE <<>>] :
            error \in {ExtractMasksError(ch)}})

---------------------------------------------------------------------------
(* generate_mask *)

\* np.round(mask)
RoundMask(mask) ==
    [mask EXCEPT !.data = [r \in 1..Len(mask.data) |-> NpRound(mask.data[r])]]

GenerateMaskError(ch) ==
    IF audio_signal.stft_data = NoData THEN "ValueError: no signal_stft data"
    ELSE IF silence_mask = NoArray THEN "TypeError"
    ELSE IF ch >= silence_mask.shape[1] THEN "IndexError"
    ELSE "none"

\* arg is a T x NumMels array of 0/1
GenerateMaskValue(ch, arg) ==
    The({[kind |-> "BinaryMask", shape |-> mask.shape, data |-> RoundMask(mask).data] :
            mask \in {Normalize(
                [shape |-> arg.shape,
                 data |-> [r \in 1..Len(arg.data) |->
                             LET t == (r - 1) \div arg.shape[2]
                                 m == (r - 1) % arg.shape[2]
                             IN  IF At3(silence_mask, ch, t, m)
                                 THEN RInt(arg.data[r]) ELSE RInt(0)]])}})

generate_mask(ch, arg) ==
    The({[raised |-> error,
          value |-> IF error = "none" THEN <<GenerateMaskValue(ch, arg)>> ELSE <<>>] :
            error \in {GenerateMaskError(ch)}})

---------------------------------------------------------------------------
(* run(): collation and assembly *)

\* the index of a list laid out source by source
SourceMajorIndex(s, ch) == s * audio_signal.num_channels + ch

\* index into uncollated_masks of source s on channel ch, both from 0
UncollatedIndex(s, ch) == s + ch * num_sources

\* np.dstack of one NumFreq x T array per channel: NumFreq x T x channels
DStack(layers) ==
    LET count == Len(layers)
        shape == <<layers[1].shape[1], layers[1].shape[2], count>>
    IN  [shape |-> shape,
         data |-> [r \in 1..Size(shape) |->
                     layers[((r - 1) % count) + 1].data[((r - 1) \div count) + 1]]]

Collate(uncollated) ==
    [s \in 1..num_sources |->
        The({DStack(layers) :
                layers \in {[ch \in 1..audio_signal.num_channels |->
                               uncollated[UncollatedIndex(s - 1, ch - 1) + 1]]}})]

\* the mask object run() builds from one collated array
MaskObject(mask) ==
    IF mask_type = BINARY_MASK
    THEN [kind |-> "BinaryMask", shape |-> mask.shape, data |-> RoundMask(mask).data]
    ELSE [kind |-> "SoftMask", shape |-> mask.shape, data |-> mask.data]

---------------------------------------------------------------------------
(* Inputs *)

\* |stft| of a signal: 0 or 1 per (frequency, frame, channel)
Signal(channels, frames, magnitude) ==
    [num_channels |-> channels, num_frames |-> frames,
     magnitude |-> magnitude, stft_data |-> NoData]

FreqOf(r, channels, frames) == (r - 1) \div (frames * channels)

\* every signal of the shape with no energy at 0 Hz and at Nyquist
SignalsOfShape(channels, frames) ==
    LET cells == 1..(NumFreq * frames * channels)
        inner == {r \in cells : FreqOf(r, channels, frames) \notin {0, NumFreq - 1}}
    IN  {Signal(channels, frames, [r \in cells |-> IF r \in inner THEN g[r] ELSE 0]) :
            g \in [inner -> {0, 1}]}

\* a tone that alternates between bin 1 and bin 2 from frame to frame and
\* from channel to channel
ToneSignal(channels, frames) ==
    Signal(channels, frames,
           [r \in 1..(NumFreq * frames * channels) |->
               LET f == FreqOf(r, channels, frames)
                   t == ((r - 1) \div channels) % frames
                   ch == (r - 1) % channels
               IN  IF f = 1 + ((t + ch) % 2) THEN 1 ELSE 0])

ToneSignals == {ToneSignal(c, t) : c \in 1..MaxChannels, t \in 1..MaxFrames}

MonoSignals == UNION {SignalsOfShape(1, t) : t \in 1..MaxFrames}

EmbeddingValues == {0, 1}

\* what the Embedder may return for an input of n elements
AnyEmbeddings(n) == [1..n -> EmbeddingValues]

\* Embedders that look at the mel band only
BandEmbeddings(n) ==
    {[r \in 1..n |-> g[(r - 1) % NumMels]] : g \in [0..(NumMels - 1) -> EmbeddingValues]}

\* the centres KMeans.fit can settle on: each one is the mean of the rows
\* nearest to it, and every row coincides with a centre
Centres(emb) ==
    {c \in [1..num_sources -> EmbeddingValues] :
        /\ \A k \in 1..num_sources : \E r \in 1..Len(emb) : emb[r] = c[k]
        /\ \A r \in 1..Len(emb) : \E k \in 1..num_sources : emb[r] = c[k]}

NoCall == [op |-> "none", raised |-> "none", value |-> <<>>]

StartStages == {"Idle", "Done", "Raised"}

StageOrder == <<"Idle", "SpectrogramComputed", "EmbeddingsClustered",
                "MasksExtracted", "Done">>

---------------------------------------------------------------------------
(* State machine *)

InitWith(signals, types, counts) ==
    /\ mask_type \in types
    /\ num_sources \in counts
    /\ audio_signal \in signals
    /\ stft = None
    /\ mel_spectrogram = None
    /\ silence_mask = NoArray
    /\ embeddings = None
    /\ assignments = NoArray
    /\ centroids = None
    /\ masks = <<>>
    /\ stage = "Idle"
    /\ chan = 0
    /\ uncollated_masks = <<>>
    /\ raised = "none"
    /\ trace = <<"Idle">>
    /\ runs = 0
    /\ embedder_calls = 0
    /\ last_call = NoCall

Init == InitWith(ToneSignals, {BINARY_MASK, SOFT_MASK, "other"}, {2, 3})

InitMask == InitWith(MonoSignals, {BINARY_MASK, SOFT_MASK}, {2})

\* run(), line 240: _compute_spectrograms
RunComputeSpectrograms(limit) ==
    /\ stage \in StartStages
    /\ runs < limit
    /\ audio_signal' = [audio_signal EXCEPT !.stft_data = "set"]
    /\ stft' = <<NumFreq, audio_signal.num_frames, audio_signal.num_channels>>
    /\ mel_spectrogram' = MelShape(audio_signal)
    /\ silence_mask' = SilenceMaskOf(audio_signal)
    /\ stage' = "SpectrogramComputed"
    /\ trace' = <<"Idle", "SpectrogramComputed">>
    /\ runs' = runs + 1
    /\ raised' = "none"
    /\ chan' = 0
    /\ uncollated_masks' = <<>>
    /\ last_call' = NoCall
    /\ UNCHANGED <<mask_type, num_sources, embeddings, assignments, centroids,
                   masks, embedder_calls>>

\* the check of the cache left out
CacheIgnored == TRUE

\* whether deep_clustering invokes the Embedder
CacheEmpty == embeddings = None

\* run(), line 241: deep_clustering; output is what the Embedder would return
\* for the current mel spectrogram, centres what KMeans.fit settles on
RunDeepClustering(output, centres) ==
    /\ stage = "SpectrogramComputed"
    /\ LET emb == IF CacheEmpty THEN output ELSE embeddings
           error == IF Len(emb) < num_sources THEN "ValueError: n_samples < n_clusters"
                    ELSE IF Len(emb) # Size(mel_spectrogram) THEN "ValueError: reshape"
                    ELSE "none"
       IN  /\ embeddings' = emb
           /\ embedder_calls' = IF CacheEmpty THEN embedder_calls + 1 ELSE embedder_calls
           /\ IF error = "none"
              THEN /\ assignments' = [shape |-> mel_spectrogram,
                                      data |-> Labels(emb, centres)]
                   /\ centroids' = centres
                   /\ stage' = "EmbeddingsClustered"
                   /\ trace' = Append(trace, "EmbeddingsClustered")
                   /\ raised' = "none"
              ELSE /\ stage' = "Raised"
                   /\ trace' = Append(trace, "Raised")
                   /\ raised' = error
                   /\ UNCHANGED <<assignments, centroids>>
    /\ UNCHANGED <<mask_type, num_sources, audio_signal, stft, mel_spectrogram,
                   silence_mask, masks, chan, uncollated_masks, runs, last_call>>

\* the loop left after its first turn
ExtractionDoneEarly(i) == i = 1

\* whether the extraction loop of run() has covered i channels and ends
ExtractionDone(i) == i = audio_signal.num_channels

\* run(), lines 243-245: one turn of the loop over the channels
RunExtractMasks ==
    /\ stage = "EmbeddingsClustered"
    /\ \E result \in {extract_masks(chan)} :
           IF result.raised = "none"
           THEN /\ uncollated_masks' = uncollated_masks \o result.value
                /\ chan' = chan + 1
                /\ stage' = IF ExtractionDone(chan + 1)
                            THEN "MasksExtracted" ELSE stage
                /\ trace' = IF ExtractionDone(chan + 1)
                            THEN Append(trace, "MasksExtracted") ELSE trace
                /\ raised' = "none"
           ELSE /\ stage' = "Raised"
                /\ trace' = Append(trace, "Raised")
                /\ raised' = result.raised
                /\ UNCHANGED <<uncollated_masks, chan>>
    /\ UNCHANGED <<mask_type, num_sources, audio_signal, stft, mel_spectrogram,
                   silence_mask, embeddings, assignments, centroids, masks,
                   runs, embedder_calls, last_call>>

\* run(), lines 247-263: collate, then build the mask objects
RunAssemble ==
    /\ stage = "MasksExtracted"
    /\ IF mask_type \in {BINARY_MASK, SOFT_MASK}
       THEN /\ masks' = The({[s \in 1..Len(collated) |-> MaskObject(collated[s])] :
                                 collated \in {Collate(uncollated_masks)}})
            /\ stage' = "Done"
            /\ trace' = Append(trace, "Done")
            /\ raised' = "none"
       ELSE /\ masks' = <<>>
            /\ stage' = "Raised"
            /\ trace' = Append(trace, "Raised")
            /\ raised' = "ValueError: Unknown mask type"
    /\ UNCHANGED <<mask_type, num_sources, audio_signal, stft, mel_spectrogram,
                   silence_mask, embeddings, assignments, centroids, chan,
                   uncollated_masks, runs, embedder_calls, last_call>>

\* the caller hands the separator another signal
SetAudioSignal(signal) ==
    /\ stage \in StartStages
    /\ runs < MaxRuns
    /\ signal # [audio_signal EXCEPT !.stft_data = NoData]
    /\ audio_signal' = signal
    /\ last_call' = NoCall
    /\ UNCHANGED <<mask_type, num_sources, stft, mel_spectrogram, silence_mask,
                   embeddings, assignments, centroids, masks, stage, chan,
                   uncollated_masks, raised, trace, runs, embedder_calls>>

\* the caller computes the signal's stft outside the separator
AudioSignalStft ==
    /\ stage \in StartStages
    /\ runs < MaxRuns
    /\ audio_signal.stft_data = NoData
    /\ audio_signal' = [audio_signal EXCEPT !.stft_data = "set"]
    /\ last_call' = NoCall
    /\ UNCHANGED <<mask_type, num_sources, stft, mel_spectrogram, silence_mask,
                   embeddings, assignments, centroids, masks, stage, chan,
                   uncollated_masks, raised, trace, runs, embedder_calls>>

\* the caller empties the embedding cache (self.embeddings = None)
InvalidateEmbeddings ==
    /\ stage \in StartStages
    /\ runs < MaxRuns
    /\ embeddings # None
    /\ embeddings' = None
    /\ last_call' = NoCall
    /\ UNCHANGED <<mask_type, num_sources, audio_signal, stft, mel_spectrogram,
                   silence_mask, assignments, centroids, masks, stage, chan,
                   uncollated_masks, raised, trace, runs, embedder_calls>>

\* a direct call _extract_masks(ch), before any run() or after a completed one;
\* the call leaves the separator as it was, so one call per state shows them all
CallExtractMasks(ch) ==
    /\ stage \in {"Idle", "Done"}
    /\ last_call = NoCall
    /\ ch \in 0..(audio_signal.num_channels - 1)
    /\ last_call' = [op |-> "_extract_masks"] @@ extract_masks(ch)
    /\ UNCHANGED <<mask_type, num_sources, audio_signal, stft, mel_spectrogram,
                   silence_mask, embeddings, assignments, centroids, masks, stage,
                   chan, uncollated_masks, raised, trace, runs, embedder_calls>>

\* the 0/1 mel arrays a caller passes to generate_mask
MaskArguments ==
    LET frames == IF mel_spectrogram = None THEN audio_signal.num_frames
                  ELSE mel_spectrogram[2]
        shape == <<frames, NumMels>>
    IN  {[shape |-> shape, data |-> [r \in 1..Size(shape) |-> g[(r - 1) % NumMels]]] :
            g \in [0..(NumMels - 1) -> {0, 1}]}

\* a direct call generate_mask(ch, arg), before any run() or after a completed one
CallGenerateMask(ch, arg) ==
    /\ stage \in {"Idle", "Done"}
    /\ last_call = NoCall
    /\ ch \in 0..(audio_signal.num_channels - 1)
    /\ last_call' = [op |-> "generate_mask"] @@ generate_mask(ch, arg)
    /\ UNCHANGED <<mask_type, num_sources, audio_signal, stft, mel_spectrogram,
                   silence_mask, embeddings, assignments, centroids, masks, stage,
                   chan, uncollated_masks, raised, trace, runs, embedder_calls>>

Next ==
    \/ RunComputeSpectrograms(MaxRuns)
    \/ \E output \in BandEmbeddings(Size(MelShape(audio_signal))) :
          \E centres \in Centres(IF CacheEmpty THEN output ELSE embeddings) :
              RunDeepClustering(output, centres)
    \/ RunExtractMasks
    \/ RunAssemble
    \/ \E signal \in ToneSignals : SetAudioSignal(signal)
    \/ AudioSignalStft
    \/ InvalidateEmbeddings
    \/ \E ch \in 0..(MaxChannels - 1) : CallExtractMasks(ch)
    \/ \E ch \in 0..(MaxChannels - 1), arg \in MaskArguments : CallGenerateMask(ch, arg)

Spec == Init /\ [][Next]_vars

\* one run() on a mono signal, any magnitudes and any embeddings
NextMask ==
    \/ RunComputeSpectrograms(1)
    \/ \E output \in AnyEmbeddings(Size(MelShape(audio_signal))) :
          \E centres \in Centres(output) : RunDeepClustering(output, centres)
    \/ RunExtractMasks
    \/ RunAssemble
    \/ \E arg \in MaskArguments : CallGenerateMask(0, arg)

SpecMask == InitMask /\ [][NextMask]_vars

---------------------------------------------------------------------------
(* Properties *)

InUnit(x) == ~IsNaN(x) /\ RCmp(x, RInt(0)) >= 0 /\ RCmp(x, RInt(1)) <= 0

IsZeroOrOne(x) == x = RInt(0) \/ x = RInt(1)

\* C1: the Embedder is invoked only when the embedding cache is empty; a run
\* that finds the cache populated clusters the cached embeddings and leaves
\* them as they are, and every run recomputes the spectrogram and re-clusters
C1_EmbedderOnlyOnEmptyCache ==
    [][/\ embedder_calls' # embedder_calls =>
            embeddings = None /\ embedder_calls' = embedder_calls + 1
       /\ (stage = "SpectrogramComputed" /\ stage' # stage /\ embeddings # None) =>
            embeddings' = embeddings /\ embedder_calls' = embedder_calls
       /\ runs' # runs =>
            mel_spectrogram' = <<audio_signal.num_channels, audio_signal.num_frames, NumMels>>
       /\ stage' = "EmbeddingsClustered" /\ stage # stage' =>
            assignments'.shape = mel_spectrogram /\ Len(centroids') = num_sources
      ]_vars

\* a second run has clustered the embeddings the first run cached
C1_Witness == runs = 2 /\ stage = "EmbeddingsClustered" /\ embedder_calls = 1

\* C2: a run passes Idle, SpectrogramComputed, EmbeddingsClustered,
\* MasksExtracted, Done in this order, each once, or stops where it raises;
\* no channel is extracted before clustering, and masks are assembled only
\* after every channel is extracted
C2_StagesInOrder ==
    /\ \E n \in 1..Len(StageOrder) :
          \/ trace = SubSeq(StageOrder, 1, n)
          \/ trace = Append(SubSeq(StageOrder, 1, n), "Raised")
    /\ stage = trace[Len(trace)]
    /\ stage = "Done" => trace = StageOrder
    /\ stage = "SpectrogramComputed" => chan = 0 /\ uncollated_masks = <<>>
    /\ stage \in {"MasksExtracted", "Done"} =>
          /\ chan = mel_spectrogram[1]
          /\ Len(uncollated_masks) = num_sources * mel_spectrogram[1]

\* a second run on a two-channel signal has completed
C2_Witness == stage = "Done" /\ runs = 2 /\ chan = 2

\* C3: a completed run holds exactly num_sources masks; the mask of source s
\* stacks, in channel order, element s + ch * num_sources of the uncollated
\* list, unchanged but for the rounding of binary masks
C3_MasksCollatedPerSource ==
    stage = "Done" =>
        /\ Len(masks) = num_sources
        /\ \A s \in 1..num_sources :
              /\ masks[s].shape = <<NumFreq, mel_spectrogram[2], mel_spectrogram[1]>>
              /\ \A ch \in 0..(mel_spectrogram[1] - 1), r \in 1..(NumFreq * mel_spectrogram[2]) :
                    \A x \in {uncollated_masks[(s - 1) + ch * num_sources + 1].data[r]} :
                        masks[s].data[(r - 1) * mel_spectrogram[1] + ch + 1] =
                            IF mask_type = BINARY_MASK THEN NpRound(x) ELSE x

\* a second run with three sources on two channels has completed, and the
\* masks of the sources differ
C3_Witness ==
    /\ stage = "Done" /\ runs = 2 /\ num_sources = 3 /\ mel_spectrogram[1] = 2
    /\ masks[1] # masks[2]

\* C4: soft masks of two sources lie in [0,1] and sum to 1 (within 1e-6) at
\* every bin and channel
C4_SoftMasksSumToOne ==
    (mask_type = SOFT_MASK /\ num_sources = 2 /\ stage = "Done") =>
        \A r \in 1..Len(masks[1].data) :
            \A x \in {masks[1].data[r]}, y \in {masks[2].data[r]} :
                /\ InUnit(x)
                /\ InUnit(y)
                /\ RCmp(RAbs(RSub(RAdd(x, y), RInt(1))), RScale(10, REps)) <= 0

\* C5: every element of a binary mask, from run() or from generate_mask, is
\* exactly 0 or 1
C5_BinaryMasksAreZeroOne ==
    /\ (mask_type = BINARY_MASK /\ stage = "Done") =>
          \A s \in 1..Len(masks) : \A r \in 1..Len(masks[s].data) :
              IsZeroOrOne(masks[s].data[r])
    /\ (last_call.op = "generate_mask" /\ last_call.raised = "none") =>
          \A r \in 1..Len(last_call.value[1].data) :
              IsZeroOrOne(last_call.value[1].data[r])

\* a binary run has completed whose first mask holds a 0, a 1, and came from
\* a value strictly between them
C5_Witness ==
    /\ mask_type = BINARY_MASK /\ stage = "Done"
    /\ \E r \in 1..Len(masks[1].data) : masks[1].data[r] = RInt(0)
    /\ \E r \in 1..Len(masks[1].data) :
          /\ masks[1].data[r] = RInt(1)
          /\ RCmp(uncollated_masks[1].data[r], RInt(1)) < 0

\* C6: binary masks of two sources are never both 1 at a bin; in the mel
\* domain exactly one source is 1 where the silence mask is true, none where
\* it is false
C6_BinaryMasksDisjoint ==
    (mask_type = BINARY_MASK /\ num_sources = 2 /\ stage = "Done") =>
        /\ \A r \in 1..Len(masks[1].data) :
              ~(masks[1].data[r] = RInt(1) /\ masks[2].data[r] = RInt(1))
        /\ \A ch \in 0..(mel_spectrogram[1] - 1) :
              \A one \in {BinaryMelMask(ch, 1)}, two \in {BinaryMelMask(ch, 2)} :
                  \A t \in 0..(mel_spectrogram[2] - 1), m \in 0..(NumMels - 1) :
                      Cardinality({x \in {one, two} : At2(x, t, m) = RInt(1)}) =
                          IF At3(silence_mask, ch, t, m) THEN 1 ELSE 0

\* C7: a direct call of _extract_masks or generate_mask on a separator whose
\* stft, mel spectrogram and silence mask are unset raises the precondition
\* ValueError and yields no mask
C7_ExtractionBeforeSpectrogramRaises ==
    (last_call.op # "none" /\ stft = None /\ mel_spectrogram = None
        /\ silence_mask = NoArray) =>
        /\ last_call.raised = "ValueError: no signal_stft data"
        /\ last_call.value = <<>>

\* C8: with an unknown mask type a run never completes, and once clustering
\* has succeeded it raises ValueError 'Unknown mask type' from the assembly
C8_UnknownMaskTypeRaisesAtAssembly ==
    mask_type \notin {BINARY_MASK, SOFT_MASK} =>
        /\ stage # "Done"
        /\ (stage = "Raised" /\ "EmbeddingsClustered" \in Range(trace)) =>
              /\ raised = "ValueError: Unknown mask type"
              /\ "MasksExtracted" \in Range(trace)

\* C9: every projected mask, normalized, has minimum 0 and all values in [0,1]
C9_NormalizedFloorIsZero ==
    stage = "MasksExtracted" =>
        \A i \in 1..num_sources :
            \A mask \in {Normalize(MelMask(0, i)).data} :
                /\ RCmp(RMin(mask), RInt(0)) = 0
                /\ \A r \in 1..Len(mask) : InUnit(mask[r])

\* a mask has been normalized whose projection has a negative minimum
C9_Witness ==
    /\ stage = "MasksExtracted"
    /\ \E i \in 1..num_sources :
          RCmp(RMin(Project(MelMask(0, i)).data), RInt(0)) < 0

\* C10: whenever clustering reshapes its results or mask extraction reads
\* them, the embeddings have one row per element of the current mel
\* spectrogram, and assignments and silence mask have its shape
C10_EmbeddingsMatchMelShape ==
    /\ (stage \in {"SpectrogramComputed", "EmbeddingsClustered", "MasksExtracted"}
           /\ embeddings # None) =>
          Len(embeddings) = Size(mel_spectrogram)
    /\ stage \in {"EmbeddingsClustered", "MasksExtracted"} =>
          /\ assignments.shape = mel_spectrogram
          /\ silence_mask.shape = mel_spectrogram

=============================================================================
